---- MODULE Spec2Model ----
(***************************************************************************)
(* A model of the arseeding-rust client: the everPay token registry        *)
(* (Everpay::update_info), the settlement transaction builder              *)
(* (Everpay::transfer / send_transfer / send_action_raw), the canonical    *)
(* signing message (Transaction::sig_msg), the settlement client           *)
(* (EverpayClient) and the submit-then-pay orchestration                   *)
(* (ASClient::send_and_pay).                                               *)
(*                                                                         *)
(* Rust Strings are TLA+ strings, HashMaps are functions whose DOMAIN is   *)
(* the key set, Result values are records [ok |-> ..., ...], a panic       *)
(* (unwrap on Err, HashMap index on a missing key) ends the call in        *)
(* pc = "panicked" without a return value.  Every `.await` on an external  *)
(* party (HTTP request, signer) is a point where the call is suspended;    *)
(* the code between two await points is one atomic action.                 *)
(***************************************************************************)
EXTENDS Integers, Sequences, FiniteSets, TLC

VARIABLES
    \* Everpay (src/src/everpay.rs:18-24)
    tokens,          \* HashMap<String, TokenList>: tag -> descriptor
    symbol_to_tag,   \* HashMap<String, String>: lowercased symbol -> tag
    fee_recipient,   \* String
    signer_type,     \* which Signer implementation is behind `signer`
    \* ghost: the /info response each registry field was last written from
    reg_src,
    \* Everpay::new / update_info in flight
    constructed,     \* Everpay::new has returned Ok
    upd_pc,          \* "idle" | "await_info" | "returned"
    upd_ret,         \* the value update_info returned, or None
    info_resp,       \* ghost: the response update_info got from /info, or None
    \* wall clock (Utc::now), nanoseconds
    now_ns,
    \* the caller's call in flight
    pc,              \* "idle" | "await_bundle" | "await_sign" | "await_submit" | "returned" | "panicked"
    kind,            \* "send_and_pay" | "transfer" | "send_action_raw" | None
    args,            \* the caller's arguments of the call
    order,           \* ItemSubmissionRes received from the bundler, or None
    tx,              \* the Transaction under construction, or None
    built_at,        \* ghost: the wall clock when tx was built, or None
    ret,             \* the value returned to the caller, or None
    seen,            \* ghost: provenance of the registry fields the call read
    steps,           \* ghost: the steps the call has been through, with their outcome
    \* ghost counters of the call in flight, and what the services received
    bundle_posts,    \* POSTs to bundle/tx issued by the call
    sign_calls,      \* calls of Signer::sign by the call
    tx_posts,        \* POSTs to /tx issued by the call
    posted_tx,       \* body of the last POST to /tx of the call, or None
    settle_resp,     \* the response the call got from /tx, or None
    bundle_resp,     \* the response the call got from bundle/tx, or None
    bundle_req,      \* the request submit_item built, or None
    bundler_orders,  \* item ids the bundler service has accepted from the call
    \* Transaction::sig_msg taken on its own: two records, and the message
    \* computed for each ("" before sig_msg has run)
    rec_a, rec_b, msg_a, msg_b,
    \* ghost of an observer of the built records: nonce and build time of a
    \* record built earlier, or None
    last_built

regvars  == <<tokens, symbol_to_tag, fee_recipient, reg_src>>
updvars  == <<constructed, upd_pc, upd_ret, info_resp>>
callvars == <<pc, kind, args, order, tx, built_at, ret, seen, steps, bundle_posts, sign_calls,
              tx_posts, posted_tx, settle_resp, bundle_resp, bundle_req,
              bundler_orders>>
msgvars  == <<rec_a, rec_b, msg_a, msg_b>>
vars     == <<regvars, signer_type, updvars, now_ns, callvars, msgvars, last_built>>

None == [none |-> TRUE]

-----------------------------------------------------------------------------
(* Bounds of the model *)

\* longest token list an /info response carries
MaxTokens == 2
\* number of half-millisecond ticks the wall clock may advance
MaxTicks == 2
\* longest token list of an /info response where calls and updates interleave
MaxTokensShared == 1

-----------------------------------------------------------------------------
(* Strings *)

Upper == "ABCDEFGHIJKLMNOPQRSTUVWXYZ"
Lower == "abcdefghijklmnopqrstuvwxyz"
Digits == "0123456789"

CharAt(s, i) == SubSeq(s, i, i)

\* index of character c in string s, 0 when absent
IndexOf(c, s) ==
    IF \E i \in 1..Len(s) : CharAt(s, i) = c
    THEN CHOOSE i \in 1..Len(s) : CharAt(s, i) = c
    ELSE 0

LowerChar(c) ==
    IF IndexOf(c, Upper) > 0 THEN CharAt(Lower, IndexOf(c, Upper)) ELSE c

RECURSIVE to_lowercase(_)
to_lowercase(s) ==
    IF Len(s) = 0 THEN ""
    ELSE LowerChar(CharAt(s, 1)) \o to_lowercase(SubSeq(s, 2, Len(s)))

IsDigit(c) == IndexOf(c, Digits) > 0
DigitVal(c) == IndexOf(c, Digits) - 1

\* u64::to_string / i64::to_string of a non-negative value
RECURSIVE to_string(_)
to_string(n) ==
    IF n < 10 THEN CharAt(Digits, n + 1)
    ELSE to_string(n \div 10) \o CharAt(Digits, (n % 10) + 1)

RECURSIVE StripZeros(_)
StripZeros(s) ==
    IF Len(s) > 1 /\ CharAt(s, 1) = "0" THEN StripZeros(SubSeq(s, 2, Len(s))) ELSE s

\* lexicographic a > b for digit strings of equal length
RECURSIVE DigitsGreater(_, _)
DigitsGreater(a, b) ==
    IF Len(a) = 0 THEN FALSE
    ELSE IF DigitVal(CharAt(a, 1)) # DigitVal(CharAt(b, 1))
         THEN DigitVal(CharAt(a, 1)) > DigitVal(CharAt(b, 1))
         ELSE DigitsGreater(SubSeq(a, 2, Len(a)), SubSeq(b, 2, Len(b)))

U64MaxStr == "18446744073709551615"

RECURSIVE DigitsValue(_)
DigitsValue(s) ==
    IF Len(s) = 0 THEN 0
    ELSE 10 * DigitsValue(SubSeq(s, 1, Len(s) - 1)) + DigitVal(CharAt(s, Len(s)))

\* str::parse::<u64>: an optional leading '+', then one or more decimal
\* digits, value at most 2^64 - 1; anything else is Err(ParseIntError).
parse_u64(s) ==
    LET body == IF Len(s) > 0 /\ CharAt(s, 1) = "+" THEN SubSeq(s, 2, Len(s)) ELSE s
        d    == StripZeros(body)
    IN  IF Len(body) = 0 \/ \E i \in 1..Len(body) : ~IsDigit(CharAt(body, i))
        THEN [ok |-> FALSE]
        ELSE IF Len(d) > Len(U64MaxStr)
                \/ (Len(d) = Len(U64MaxStr) /\ DigitsGreater(d, U64MaxStr))
             THEN [ok |-> FALSE]
             ELSE [ok |-> TRUE, val |-> DigitsValue(d)]

-----------------------------------------------------------------------------
(* Result and ASError values *)

Ok(v)  == [ok |-> TRUE, val |-> v]
Err(e) == [ok |-> FALSE, err |-> e]

APIError(e)     == [variant |-> "APIError", e |-> e]
ReqwestError(w) == [variant |-> "ReqwestError", what |-> w]
ArLoaderError   == [variant |-> "ArLoaderError"]
TokenError(a)   == [variant |-> "TokenError", arg |-> a]

-----------------------------------------------------------------------------
(* HTTP: what a request can come back with, and the wrappers' decoding *)

\* StatusCode::OK
StatusOK == 200
\* the statuses other than OK that the services answer with
OtherStatuses == {500}

\* a response body: JSON of some schema, or something that is not JSON
JsonBody(schema, v) == [schema |-> schema, v |-> v]
Garbage == [schema |-> "garbage", v |-> None]

HttpResponse(status, body) == [sent |-> TRUE, status |-> status, body |-> body]
TransportFailure == [sent |-> FALSE]

ErrorMessages == {"insufficient balance"}

\* the responses one endpoint whose success schema is `schema` can give,
\* `values` being the success bodies considered
Responses(schema, values) ==
    {TransportFailure}
    \cup {HttpResponse(StatusOK, JsonBody(schema, v)) : v \in values}
    \cup {HttpResponse(StatusOK, Garbage)}
    \cup {HttpResponse(st, Garbage) : st \in OtherStatuses}
    \cup {HttpResponse(st, JsonBody("APIErrorRes", [error |-> e])) :
            st \in OtherStatuses, e \in ErrorMessages}

\* decode_response with a fault: the status is not looked at, the body is
\* always decoded as the success schema
decode_response_any_status(resp, schema) ==
    IF ~resp.sent THEN Err(ReqwestError("transport"))
    ELSE IF resp.body.schema = schema THEN Ok(resp.body.v)
    ELSE Err(ReqwestError("decode"))

\* the shape shared by every endpoint wrapper:
\*   let res = ...send().await?;
\*   match res.status() { OK => Ok(res.json::<T>().await?),
\*                        _  => Err(APIError{ e: res.json::<APIErrorRes>().await?.error }) }
decode_response(resp, schema) ==
    IF ~resp.sent THEN Err(ReqwestError("transport"))
    ELSE IF resp.status = StatusOK
    THEN IF resp.body.schema = schema THEN Ok(resp.body.v)
         ELSE Err(ReqwestError("decode"))
    ELSE IF resp.body.schema = "APIErrorRes" THEN Err(APIError(resp.body.v.error))
         ELSE Err(ReqwestError("decode"))

-----------------------------------------------------------------------------
(* Transaction and its canonical signing message *)

TX_VERSION_V1 == "v1"
TX_ACTION_TRANSFER == "transfer"

\* sig_msg with a fault: the nonce line is left out
sig_msg_no_nonce(t) ==
    "tokenSymbol:" \o t.token_symbol
    \o "\naction:" \o t.action
    \o "\nfrom:" \o t.from
    \o "\nto:" \o t.to
    \o "\namount:" \o t.amount
    \o "\nfee:" \o t.fee
    \o "\nfeeRecipient:" \o t.fee_recipient
    \o "\ntokenID:" \o t.token_id
    \o "\nchainType:" \o t.chain_type
    \o "\nchainID:" \o t.chain_id
    \o "\ndata:" \o t.data
    \o "\nversion:" \o t.version

\* Transaction::sig_msg: the format! of the thirteen fields, sig left out
sig_msg(t) ==
    "tokenSymbol:" \o t.token_symbol
    \o "\naction:" \o t.action
    \o "\nfrom:" \o t.from
    \o "\nto:" \o t.to
    \o "\namount:" \o t.amount
    \o "\nfee:" \o t.fee
    \o "\nfeeRecipient:" \o t.fee_recipient
    \o "\nnonce:" \o t.nonce
    \o "\ntokenID:" \o t.token_id
    \o "\nchainType:" \o t.chain_type
    \o "\nchainID:" \o t.chain_id
    \o "\ndata:" \o t.data
    \o "\nversion:" \o t.version

\* the thirteen fields sig_msg prints, in its order
SignedFields ==
    <<"token_symbol", "action", "from", "to", "amount", "fee", "fee_recipient",
      "nonce", "token_id", "chain_type", "chain_id", "data", "version">>

-----------------------------------------------------------------------------
(* Signers *)

SignerTypes == {"RSA", "ECDSA"}

\* Signer::wallet_address: ArweaveSigner derives it from the keypair and may
\* fail; EthSigner returns the account fixed at session time.
WalletAddressResults(st) ==
    IF st = "RSA" THEN {Ok("ARWEAVE_ADDR"), Err(ArLoaderError)}
    ELSE {Ok("0xeth_account")}

\* The signature string a signer gives for msg.  The cryptography is ideal:
\* the signature determines the message it was made over.
\* ArweaveSigner: "<base64 signature>,<keypair modulus>"; EthSigner: the
\* wallet's personal_sign answer.
Signature(st, msg) ==
    IF st = "RSA" THEN "rsa(" \o msg \o ")" \o "," \o "MODULUS"
    ELSE "ecdsa(" \o msg \o ")"

\* Signer::sign outcomes: Ok(signature); ArweaveSigner: Err from
\* crypto.sign / keypair_modulus; EthSigner: personal_sign(..).await.unwrap()
\* panics when the wallet refuses.
SignOutcomes(st) ==
    IF st = "RSA" THEN {"ok", "err"} ELSE {"ok", "panic"}

-----------------------------------------------------------------------------
(* Token registry: Everpay::update_info *)

Token(tag, id, symbol, chain_type, chain_id, transfer_fee) ==
    [tag |-> tag, id |-> id, symbol |-> symbol, chain_type |-> chain_type,
     chain_id |-> chain_id, transfer_fee |-> transfer_fee]

\* the token descriptors an /info response may list
TokenPool ==
    { Token("AR_TAG", "AR_ID", "AR", "arweave", "0", "1000"),
      Token("USDC_TAG", "0xusdc", "USDC", "ethereum", "1", "25"),
      Token("ar_TAG", "ar_ID", "ar", "moon", "1287", "7") }

RECURSIVE SeqsUpTo(_, _)
SeqsUpTo(S, n) ==
    IF n = 0 THEN {<<>>}
    ELSE LET shorter == SeqsUpTo(S, n - 1)
         IN  shorter \cup {Append(q, x) : q \in {r \in shorter : Len(r) = n - 1}, x \in S}

FeeRecipients == {"FR1"}

\* TokenInfo bodies of GET /info (the fields update_info reads)
TokenInfos ==
    [fee_recipient : FeeRecipients, token_list : SeqsUpTo(TokenPool, MaxTokens)]

EmptyMap == <<>>

\* HashMap::insert
insert(m, k, v) == (k :> v) @@ m

\* the loop of update_info, lines 50-56, for the tokens map
RECURSIVE collect_tokens(_, _)
collect_tokens(m, list) ==
    IF list = <<>> THEN m
    ELSE collect_tokens(insert(m, Head(list).tag, Head(list)), Tail(list))

\* collect_sym_to_tags with a fault: the symbol is the key as spelled
RECURSIVE collect_sym_to_tags_verbatim(_, _)
collect_sym_to_tags_verbatim(m, list) ==
    IF list = <<>> THEN m
    ELSE collect_sym_to_tags_verbatim(insert(m, Head(list).symbol, Head(list).tag),
                                      Tail(list))

\* the same loop for the symbol index
RECURSIVE collect_sym_to_tags(_, _)
collect_sym_to_tags(m, list) ==
    IF list = <<>> THEN m
    ELSE collect_sym_to_tags(insert(m, to_lowercase(Head(list).symbol), Head(list).tag),
                             Tail(list))

\* update_info_assign with a fault: fee_recipient is not replaced
update_info_assign_partial(token_info) ==
    /\ tokens' = collect_tokens(EmptyMap, token_info.token_list)
    /\ symbol_to_tag' = collect_sym_to_tags(EmptyMap, token_info.token_list)
    /\ reg_src' = [reg_src EXCEPT !.tokens = token_info, !.symbol_to_tag = token_info]
    /\ UNCHANGED fee_recipient

\* update_info lines 47-59: build both maps, then assign the three fields
update_info_assign(token_info) ==
    /\ tokens' = collect_tokens(EmptyMap, token_info.token_list)
    /\ symbol_to_tag' = collect_sym_to_tags(EmptyMap, token_info.token_list)
    /\ fee_recipient' = token_info.fee_recipient
    /\ reg_src' = [tokens |-> token_info, symbol_to_tag |-> token_info,
                   fee_recipient |-> token_info]

\* update_info up to its await: the GET /info request goes out.  Everpay::new
\* is its caller in this crate; the method is modelled as callable again on a
\* constructed Everpay, which is how the registry would be refreshed.
UpdateInfoCall ==
    /\ upd_pc = "idle"
    /\ upd_pc' = "await_info"
    /\ UNCHANGED <<regvars, signer_type, constructed, upd_ret, info_resp, now_ns, callvars,
                 msgvars, last_built>>

\* UpdateInfoReturn with a fault: the maps are cleared when /info fails
UpdateInfoReturn_ClearOnErr(resp) ==
    LET r == decode_response(resp, "TokenInfo")
    IN  /\ upd_pc = "await_info"
        /\ upd_pc' = "returned"
        /\ info_resp' = resp
        /\ IF r.ok
           THEN /\ update_info_assign(r.val)
                /\ upd_ret' = Ok("unit")
                /\ constructed' = TRUE
           ELSE /\ tokens' = EmptyMap
                /\ symbol_to_tag' = EmptyMap
                /\ UNCHANGED <<fee_recipient, reg_src>>
                /\ upd_ret' = r
                /\ UNCHANGED constructed
        /\ UNCHANGED <<signer_type, now_ns, callvars, msgvars, last_built>>

\* update_info from the answer of /info on: `?` returns the error before
\* anything is assigned; Everpay::new returns the Everpay only on Ok.
UpdateInfoReturn(resp) ==
    LET r == decode_response(resp, "TokenInfo")
    IN  /\ upd_pc = "await_info"
        /\ upd_pc' = "returned"
        /\ info_resp' = resp
        /\ IF r.ok
           THEN /\ update_info_assign(r.val)
                /\ upd_ret' = Ok("unit")
                /\ constructed' = TRUE
           ELSE /\ UNCHANGED regvars
                /\ upd_ret' = r
                /\ UNCHANGED constructed
        /\ UNCHANGED <<signer_type, now_ns, callvars, msgvars, last_built>>

InfoResponses == Responses("TokenInfo", TokenInfos)

\* the caller of update_info has its return value
UpdateInfoEnd ==
    /\ upd_pc = "returned"
    /\ upd_pc' = "idle"
    /\ upd_ret' = None
    /\ info_resp' = None
    /\ UNCHANGED <<regvars, signer_type, constructed, now_ns, callvars, msgvars, last_built>>

-----------------------------------------------------------------------------
(* Settlement transaction builder: Everpay::transfer, send_transfer,
   send_action_raw, get_nonce *)

NsPerMs == 1000000

\* get_nonce with a fault: the clock is read in seconds
get_nonce_secs == to_string(now_ns \div 1000000000)

\* get_nonce: (Utc::now().timestamp_nanos() / 1000000).to_string()
get_nonce == to_string(now_ns \div NsPerMs)

\* what the synchronous part of a builder call leaves: where the call stands,
\* the record it built, the value it returned and (ghost) the steps gone
\* through
Step(p, t, r, d) == [pc |-> p, tx |-> t, ret |-> r, did |-> d]

\* ghost: a step of a call and whether it succeeded
Ev(step, ok) == [step |-> step, ok |-> ok]

\* the steps `done` went before those of st
After(done, st) == [st EXCEPT !.did = done \o st.did]

\* transfer_record with a fault: sender and receiver change places
transfer_record_swapped(token_info, from, receiver, amount, data) ==
    [token_symbol  |-> token_info.symbol,
     action        |-> TX_ACTION_TRANSFER,
     from          |-> receiver,
     to            |-> from,
     amount        |-> to_string(amount),
     fee           |-> token_info.transfer_fee,
     fee_recipient |-> fee_recipient,
     nonce         |-> get_nonce,
     token_id      |-> token_info.id,
     chain_type    |-> token_info.chain_type,
     chain_id      |-> token_info.chain_id,
     data          |-> data,
     version       |-> TX_VERSION_V1,
     sig           |-> ""]

\* send_transfer lines 151-166: the Transaction literal
transfer_record(token_info, from, receiver, amount, data) ==
    [token_symbol  |-> token_info.symbol,
     action        |-> TX_ACTION_TRANSFER,
     from          |-> from,
     to            |-> receiver,
     amount        |-> to_string(amount),
     fee           |-> token_info.transfer_fee,
     fee_recipient |-> fee_recipient,
     nonce         |-> get_nonce,
     token_id      |-> token_info.id,
     chain_type    |-> token_info.chain_type,
     chain_id      |-> token_info.chain_id,
     data          |-> data,
     version       |-> TX_VERSION_V1,
     sig           |-> ""]

\* send_transfer_sync with a fault: the wallet address is derived before the
\* token is looked up
send_transfer_sync_address_first(token_tag, receiver, amount, data, wa) ==
    IF ~wa.ok THEN Step("returned", None, wa, <<Ev("address", FALSE)>>)
    ELSE IF token_tag \notin DOMAIN tokens
    THEN Step("returned", None, Err(TokenError(token_tag)),
              <<Ev("address", TRUE), Ev("resolve", FALSE)>>)
    ELSE Step("await_sign",
              transfer_record(tokens[token_tag], wa.val, receiver, amount, data),
              None,
              <<Ev("address", TRUE), Ev("resolve", TRUE)>>)

\* send_transfer, lines 142-168, up to the await on the signer
send_transfer_sync(token_tag, receiver, amount, data, wa) ==
    IF token_tag \notin DOMAIN tokens
    THEN Step("returned", None, Err(TokenError(token_tag)), <<Ev("resolve", FALSE)>>)
    ELSE LET token_info == tokens[token_tag]
         IN  IF ~wa.ok
             THEN Step("returned", None, wa, <<Ev("resolve", TRUE), Ev("address", FALSE)>>)
             ELSE Step("await_sign",
                       transfer_record(token_info, wa.val, receiver, amount, data),
                       None,
                       <<Ev("resolve", TRUE), Ev("address", TRUE)>>)

\* transfer, lines 130-132: HashMap's Index panics on a key that is absent
transfer_sync(symbol, receiver, amount, data, wa) ==
    IF to_lowercase(symbol) \notin DOMAIN symbol_to_tag
    THEN Step("panicked", None, None, <<Ev("resolve", FALSE)>>)
    ELSE send_transfer_sync(symbol_to_tag[to_lowercase(symbol)], receiver, amount, data, wa)

\* send_action_raw, lines 101-118, up to the await on the signer
send_action_raw_sync(a, wa) ==
    IF ~wa.ok THEN Step("returned", None, wa, <<Ev("address", FALSE)>>)
    ELSE Step("await_sign",
              [token_symbol  |-> a.token_symbol,
               action        |-> a.action,
               from          |-> wa.val,
               to            |-> a.receiver,
               amount        |-> to_string(a.amount),
               fee           |-> to_string(a.fee),
               fee_recipient |-> a.fee_recipient,
               nonce         |-> get_nonce,
               token_id      |-> a.token_id,
               chain_type    |-> a.chain_type,
               chain_id      |-> a.chain_id,
               data          |-> a.data,
               version       |-> TX_VERSION_V1,
               sig           |-> ""],
              None,
              <<Ev("address", TRUE)>>)

\* ghost: which /info response each registry field read by the call came
\* from, and whether an update_info was in flight at the read
Observed == [tokens |-> reg_src.tokens, symbol_to_tag |-> reg_src.symbol_to_tag,
             fee_recipient |-> reg_src.fee_recipient,
             during_update |-> (upd_pc = "await_info")]

\* the call's state after the synchronous part st of a builder call
Proceed(st) ==
    /\ pc' = st.pc
    /\ tx' = st.tx
    /\ built_at' = IF st.tx # None THEN now_ns ELSE built_at
    /\ ret' = st.ret
    /\ steps' = steps \o st.did
    /\ sign_calls' = IF st.pc = "await_sign" THEN sign_calls + 1 ELSE sign_calls

\* arguments the caller passes to transfer
TransferArgs ==
    [symbol : {"AR", "ar", "doge"}, receiver : {"RECEIVER"},
     amount : {500}, data : {"{}"}]

\* the caller calls Everpay::transfer
TransferCall(a, wa) ==
    /\ pc = "idle"
    /\ constructed
    /\ kind' = "transfer"
    /\ args' = a
    /\ seen' = Observed
    /\ Proceed(transfer_sync(a.symbol, a.receiver, a.amount, a.data, wa))
    /\ UNCHANGED <<order, bundle_posts, tx_posts, posted_tx, settle_resp, bundle_resp,
                   bundle_req, bundler_orders>>
    /\ UNCHANGED <<regvars, signer_type, updvars, now_ns, msgvars, last_built>>

\* arguments the caller passes to send_action_raw
RawArgs ==
    [token_symbol : {"AR"}, action : {TX_ACTION_TRANSFER}, fee : {0},
     fee_recipient : {"FR1"}, token_id : {"AR_ID"}, chain_type : {"arweave"},
     chain_id : {"1"}, receiver : {"RECEIVER"}, amount : {1},
     data : {"a", "a\ndata:a"}]

\* the caller calls Everpay::send_action_raw
SendActionRawCall(a, wa) ==
    /\ pc = "idle"
    /\ constructed
    /\ kind' = "send_action_raw"
    /\ args' = a
    /\ Proceed(send_action_raw_sync(a, wa))
    /\ UNCHANGED <<order, seen, bundle_posts, tx_posts, posted_tx, settle_resp,
                   bundle_resp, bundle_req,
                   bundler_orders>>
    /\ UNCHANGED <<regvars, signer_type, updvars, now_ns, msgvars, last_built>>

-----------------------------------------------------------------------------
(* Bundler submission orchestrator: ASClient::send_and_pay *)

\* arguments the caller passes to send_and_pay
SendAndPayArgs == [currency : {"usdc", "ar", ""}, api_key : {"KEY", ""}]

\* ItemSubmissionRes bodies of POST bundle/tx (the fields send_and_pay reads)
Orders ==
    [item_id : {"X"}, bundler : {"B"}, currency : {"usdc", "doge"},
     fee : {"1000", "+07", "", "18446744073709551616"}]

BundleResponses == Responses("ItemSubmissionRes", Orders)

\* serde_json::to_string(&PayTxData{..}), fields renamed to camelCase
pay_tx_data(order_id) ==
    "{\"appName\":\"arseeding\",\"action\":\"payment\",\"itemIds\":[\""
    \o order_id \o "\"]}"

\* ASClient.url as `{}` prints it: DEFAULT_ARSEEDING_URL parsed into a Url,
\* whose empty path is printed as "/"
ArseedingUrl == "https://arseed.web3infra.dev/"

\* submit_item lines 118-121
submit_item_url(currency) ==
    IF Len(currency) > 0 THEN ArseedingUrl \o "bundle/tx/" \o currency
    ELSE "bundle/tx"

\* submit_item lines 123-131: the request as built; a header is the sequence
\* of the values set for it
submit_item_request(currency, api_key) ==
    [url            |-> submit_item_url(currency),
     content_type   |-> <<"application/octet-stream">>,
     api_key_header |-> IF Len(api_key) > 0 THEN <<api_key>> ELSE <<>>]

\* Client::post parses its argument as a Url: a string without a scheme is a
\* relative reference, which does not parse; send() then returns the error
\* without putting anything on the wire
IsAbsoluteUrl(u) == Len(u) >= 8 /\ SubSeq(u, 1, 8) = "https://"

\* send_and_pay calls bundle_and_submit: the data item is created, signed and
\* serialized (each may fail with an arloader error), then submit_item builds
\* the request and sends it
SendAndPayCall(a, item_ok) ==
    /\ pc = "idle"
    /\ constructed
    /\ kind' = "send_and_pay"
    /\ args' = a
    /\ IF ~item_ok
       THEN /\ pc' = "returned"
            /\ ret' = Err(ArLoaderError)
            /\ steps' = <<Ev("bundle", FALSE)>>
            /\ UNCHANGED <<bundle_posts, bundle_req>>
       ELSE LET req == submit_item_request(a.currency, a.api_key)
            IN  IF IsAbsoluteUrl(req.url)
                THEN /\ pc' = "await_bundle"
                     /\ bundle_posts' = bundle_posts + 1
                     /\ bundle_req' = [sent |-> TRUE, req |-> req]
                     /\ ret' = None
                     /\ UNCHANGED steps
                ELSE /\ pc' = "returned"
                     /\ ret' = Err(ReqwestError("builder"))
                     /\ bundle_req' = [sent |-> FALSE, req |-> req]
                     /\ steps' = <<Ev("bundle", FALSE)>>
                     /\ UNCHANGED bundle_posts
    /\ UNCHANGED <<order, tx, built_at, seen, sign_calls, tx_posts, posted_tx, settle_resp,
                   bundle_resp, bundler_orders>>
    /\ UNCHANGED <<regvars, signer_type, updvars, now_ns, msgvars, last_built>>

\* pay_currency with a fault: the caller's currency argument is paid in
pay_currency_caller(currency, ord) == currency

\* line 94, `let currency = order.currency;`: from here on `currency` is the
\* order's currency, the caller's argument is shadowed
pay_currency(currency, ord) == ord.currency

\* the bundler has accepted an item exactly when it answers OK with an order
Accepted(resp) ==
    IF resp.sent /\ resp.status = StatusOK /\ resp.body.schema = "ItemSubmissionRes"
    THEN {resp.body.v.item_id}
    ELSE {}

\* send_and_pay from the bundler's answer on, lines 84-105, up to the next
\* await: `?` on the submission, fee.parse().unwrap(), then Everpay::transfer
\* with the order's currency, bundler and fee
SendAndPayBundleReturn(resp, wa) ==
    LET r == decode_response(resp, "ItemSubmissionRes")
    IN  /\ pc = "await_bundle"
        /\ bundle_resp' = resp
        /\ bundler_orders' = bundler_orders \cup Accepted(resp)
        /\ IF ~r.ok
           THEN /\ pc' = "returned"
                /\ ret' = r
                /\ steps' = steps \o <<Ev("bundle", FALSE)>>
                /\ UNCHANGED <<order, tx, built_at, seen, sign_calls>>
           ELSE /\ order' = r.val
                /\ IF ~parse_u64(r.val.fee).ok
                   THEN /\ pc' = "panicked"
                        /\ steps' = steps \o <<Ev("bundle", TRUE)>>
                        /\ UNCHANGED <<tx, built_at, ret, seen, sign_calls>>
                   ELSE /\ seen' = Observed
                        /\ Proceed(After(<<Ev("bundle", TRUE)>>,
                                         transfer_sync(pay_currency(args.currency, r.val),
                                                       r.val.bundler,
                                                       parse_u64(r.val.fee).val,
                                                       pay_tx_data(r.val.item_id), wa)))
        /\ UNCHANGED <<kind, args, bundle_posts, tx_posts, posted_tx, settle_resp,
                       bundle_req>>
        /\ UNCHANGED <<regvars, signer_type, updvars, now_ns, msgvars, last_built>>

-----------------------------------------------------------------------------
(* Signing and submission: the tail of send_transfer and send_action_raw *)

\* attach_sig with a fault: the nonce is taken again when the signature is stored
attach_sig_restamp(t, s) == [t EXCEPT !.sig = s, !.nonce = get_nonce]

\* `tx.sig = self.sign(&tx.sig_msg()).await?` : the assignment
attach_sig(t, s) == [t EXCEPT !.sig = s]

\* SignReturn with a fault: the signed record is handed back, nothing is posted
SignReturn_NoSubmit(outcome) ==
    /\ pc = "await_sign"
    /\ steps' = steps \o <<Ev("sign", outcome = "ok")>>
    /\ IF outcome = "ok"
       THEN /\ tx' = attach_sig(tx, Signature(signer_type, sig_msg(tx)))
            /\ pc' = "returned"
            /\ ret' = Ok(tx')
       ELSE IF outcome = "err"
       THEN /\ pc' = "returned"
            /\ ret' = Err(ArLoaderError)
            /\ UNCHANGED tx
       ELSE /\ pc' = "panicked"
            /\ UNCHANGED <<tx, ret>>
    /\ UNCHANGED <<tx_posts, posted_tx>>
    /\ UNCHANGED <<kind, args, order, built_at, seen, bundle_posts, sign_calls,
                   settle_resp, bundle_resp, bundle_req,
                   bundler_orders>>
    /\ UNCHANGED <<regvars, signer_type, updvars, now_ns, msgvars, last_built>>

\* the signer answers: on Ok the signature is stored in tx.sig and
\* submit_tx posts the record to /tx; an Err is returned by `?`; the unwrap
\* in EthSigner::sign panics
SignReturn(outcome) ==
    /\ pc = "await_sign"
    /\ steps' = steps \o <<Ev("sign", outcome = "ok")>>
    /\ IF outcome = "ok"
       THEN /\ tx' = attach_sig(tx, Signature(signer_type, sig_msg(tx)))
            /\ tx_posts' = tx_posts + 1
            /\ posted_tx' = tx'
            /\ pc' = "await_submit"
            /\ UNCHANGED ret
       ELSE IF outcome = "err"
       THEN /\ pc' = "returned"
            /\ ret' = Err(ArLoaderError)
            /\ UNCHANGED <<tx, tx_posts, posted_tx>>
       ELSE /\ pc' = "panicked"
            /\ UNCHANGED <<tx, ret, tx_posts, posted_tx>>
    /\ UNCHANGED <<kind, args, order, built_at, seen, bundle_posts, sign_calls,
                   settle_resp, bundle_resp, bundle_req,
                   bundler_orders>>
    /\ UNCHANGED <<regvars, signer_type, updvars, now_ns, msgvars, last_built>>

StatusResBodies == {[status |-> "ok"]}

SubmitResponses == Responses("StatusRes", StatusResBodies)

\* send_and_pay_result with a fault: the payment's failure is swallowed
send_and_pay_result_swallow(order_id, paid) == Ok(order_id)

\* send_and_pay lines 103-107: `transfer(..).await?; Ok(order_id)`
send_and_pay_result(order_id, paid) == IF paid.ok THEN Ok(order_id) ELSE paid

\* SubmitReturn with a fault: a failed submission is posted once more
SubmitReturn_Retry(resp) ==
    /\ pc = "await_submit"
    /\ settle_resp' = resp
    /\ steps' = steps \o <<Ev("settle", decode_response(resp, "StatusRes").ok)>>
    /\ IF ~decode_response(resp, "StatusRes").ok /\ tx_posts < 2
       THEN /\ pc' = "await_submit"
            /\ tx_posts' = tx_posts + 1
            /\ UNCHANGED ret
       ELSE /\ pc' = "returned"
            /\ ret' = IF kind = "send_and_pay"
                      THEN send_and_pay_result(order.item_id, decode_response(resp, "StatusRes"))
                      ELSE decode_response(resp, "StatusRes")
            /\ UNCHANGED tx_posts
    /\ UNCHANGED <<kind, args, order, tx, built_at, seen, bundle_posts, sign_calls,
                   posted_tx, bundle_resp, bundle_req, bundler_orders>>
    /\ UNCHANGED <<regvars, signer_type, updvars, now_ns, msgvars, last_built>>

\* /tx answers: EverpayClient::submit_tx decodes it, send_transfer and
\* send_action_raw return that result, send_and_pay maps it
SubmitReturn(resp) ==
    /\ pc = "await_submit"
    /\ settle_resp' = resp
    /\ steps' = steps \o <<Ev("settle", decode_response(resp, "StatusRes").ok)>>
    /\ pc' = "returned"
    /\ ret' = IF kind = "send_and_pay"
              THEN send_and_pay_result(order.item_id, decode_response(resp, "StatusRes"))
              ELSE decode_response(resp, "StatusRes")
    /\ UNCHANGED <<kind, args, order, tx, built_at, seen, bundle_posts, sign_calls, tx_posts,
                   posted_tx, bundle_resp, bundle_req, bundler_orders>>
    /\ UNCHANGED <<regvars, signer_type, updvars, now_ns, msgvars, last_built>>

\* the caller has its return value; the call's locals are dropped
CallEnd ==
    /\ pc = "returned"
    /\ pc' = "idle"
    /\ kind' = "none"
    /\ args' = None
    /\ order' = None
    /\ tx' = None
    /\ built_at' = None
    /\ ret' = None
    /\ seen' = None
    /\ steps' = <<>>
    /\ bundle_posts' = 0
    /\ sign_calls' = 0
    /\ tx_posts' = 0
    /\ posted_tx' = None
    /\ settle_resp' = None
    /\ bundle_resp' = None
    /\ bundle_req' = None
    /\ bundler_orders' = {}
    /\ UNCHANGED <<regvars, signer_type, updvars, now_ns, msgvars, last_built>>

\* an observer of the records the client builds notes the nonce and the build
\* time of the record of the call that has just returned
Observe ==
    /\ pc = "returned"
    /\ tx # None
    /\ last_built # [nonce |-> tx.nonce, at |-> built_at]
    /\ last_built' = [nonce |-> tx.nonce, at |-> built_at]
    /\ UNCHANGED <<regvars, signer_type, updvars, now_ns, callvars, msgvars>>

-----------------------------------------------------------------------------
(* The wall clock *)

\* Utc::now() at construction of the model's run, in nanoseconds
StartNs == 1500000

\* the clock advances by half a millisecond
Tick ==
    /\ now_ns < StartNs + MaxTicks * 500000
    /\ now_ns' = now_ns + 500000
    /\ UNCHANGED <<regvars, signer_type, updvars, callvars, msgvars, last_built>>

-----------------------------------------------------------------------------
(* The client: specification *)

\* Everpay::new lines 31-37: the struct before the first update_info
ClientInit ==
    /\ tokens = EmptyMap
    /\ symbol_to_tag = EmptyMap
    /\ fee_recipient = ""
    /\ reg_src = [tokens |-> None, symbol_to_tag |-> None, fee_recipient |-> None]
    /\ signer_type \in SignerTypes
    /\ constructed = FALSE
    /\ upd_pc = "idle"
    /\ upd_ret = None
    /\ info_resp = None
    /\ now_ns = StartNs
    /\ pc = "idle"
    /\ kind = "none"
    /\ args = None
    /\ order = None
    /\ tx = None
    /\ built_at = None
    /\ ret = None
    /\ seen = None
    /\ steps = <<>>
    /\ bundle_posts = 0
    /\ sign_calls = 0
    /\ tx_posts = 0
    /\ posted_tx = None
    /\ settle_resp = None
    /\ bundle_resp = None
    /\ bundle_req = None
    /\ bundler_orders = {}
    /\ last_built = None

Init ==
    /\ ClientInit
    /\ rec_a = None
    /\ rec_b = None
    /\ msg_a = ""
    /\ msg_b = ""

\* `&mut self` of update_info and `&self` of the other methods exclude each
\* other for as long as the returned futures live
NoCallInFlight == pc = "idle"
NoUpdateInFlight == upd_pc = "idle"

Next ==
    \/ NoCallInFlight /\ UpdateInfoCall
    \/ \E resp \in InfoResponses : UpdateInfoReturn(resp)
    \/ UpdateInfoEnd
    \/ NoUpdateInFlight /\ \E a \in TransferArgs, wa \in WalletAddressResults(signer_type) :
          TransferCall(a, wa)
    \/ NoUpdateInFlight /\ \E a \in RawArgs, wa \in WalletAddressResults(signer_type) :
          SendActionRawCall(a, wa)
    \/ NoUpdateInFlight /\ \E a \in SendAndPayArgs, item_ok \in BOOLEAN :
          SendAndPayCall(a, item_ok)
    \/ \E resp \in BundleResponses, wa \in WalletAddressResults(signer_type) :
          SendAndPayBundleReturn(resp, wa)
    \/ \E outcome \in SignOutcomes(signer_type) : SignReturn(outcome)
    \/ \E resp \in SubmitResponses : SubmitReturn(resp)
    \/ CallEnd
    \/ Tick

Spec == Init /\ [][Next]_vars

-----------------------------------------------------------------------------
(* The same client with the Everpay shared between tasks (interior
   mutability): calls and update_info interleave at their await points.  The
   borrow rules of the crate as written allow only the runs of Spec; this
   specification is for what a read that overlaps an update can observe. *)

InfoResponsesShared ==
    Responses("TokenInfo",
              [fee_recipient : FeeRecipients, token_list : SeqsUpTo(TokenPool, MaxTokensShared)])

NextShared ==
    \/ UpdateInfoCall
    \/ \E resp \in InfoResponsesShared : UpdateInfoReturn(resp)
    \/ UpdateInfoEnd
    \/ \E a \in TransferArgs, wa \in WalletAddressResults(signer_type) : TransferCall(a, wa)
    \/ \E outcome \in SignOutcomes(signer_type) : SignReturn(outcome)
    \/ \E resp \in SubmitResponses : SubmitReturn(resp)
    \/ CallEnd

SpecShared == Init /\ [][NextShared]_vars

-----------------------------------------------------------------------------
(* The client with an observer of the records it builds: the nonces of
   records built one after the other *)

InfoResponsesNonce ==
    Responses("TokenInfo",
              [fee_recipient : FeeRecipients, token_list : {<<t>> : t \in TokenPool}])

NextNonce ==
    \/ NoCallInFlight /\ UpdateInfoCall
    \/ \E resp \in InfoResponsesNonce : UpdateInfoReturn(resp)
    \/ UpdateInfoEnd
    \/ NoUpdateInFlight /\ \E a \in TransferArgs, wa \in WalletAddressResults(signer_type) :
          TransferCall(a, wa)
    \/ NoUpdateInFlight /\ \E a \in RawArgs, wa \in WalletAddressResults(signer_type) :
          SendActionRawCall(a, wa)
    \/ \E outcome \in SignOutcomes(signer_type) : SignReturn(outcome)
    \/ \E resp \in SubmitResponses : SubmitReturn(resp)
    \/ CallEnd
    \/ Observe
    \/ Tick

SpecNonce == Init /\ [][NextNonce]_vars

-----------------------------------------------------------------------------
(* Transaction::sig_msg as a function of the record: Transaction is a public
   struct with public fields, so any strings can stand in them *)

MsgRecords ==
    [token_symbol : {"AR"}, action : {TX_ACTION_TRANSFER}, from : {"F"},
     to : {"R", "R\namount:1"}, amount : {"1", "1\namount:1"}, fee : {"0"},
     fee_recipient : {"FR1"}, nonce : {"1", "2"}, token_id : {"AR_ID"},
     chain_type : {"arweave"}, chain_id : {"1", "1\ndata:a"},
     data : {"a", "a\ndata:a"}, version : {TX_VERSION_V1}, sig : {"", "s"}]

InitSigMsg ==
    /\ ClientInit
    /\ rec_a \in MsgRecords
    /\ rec_b \in MsgRecords
    /\ msg_a = ""
    /\ msg_b = ""

\* rec_a.sig_msg()
SigMsgA ==
    /\ msg_a = ""
    /\ msg_a' = sig_msg(rec_a)
    /\ UNCHANGED <<regvars, signer_type, updvars, now_ns, callvars, rec_a, rec_b, msg_b,
                   last_built>>

\* rec_b.sig_msg()
SigMsgB ==
    /\ msg_b = ""
    /\ msg_b' = sig_msg(rec_b)
    /\ UNCHANGED <<regvars, signer_type, updvars, now_ns, callvars, rec_a, rec_b, msg_a,
                   last_built>>

NextSigMsg == SigMsgA \/ SigMsgB

SpecSigMsg == InitSigMsg /\ [][NextSigMsg]_vars

-----------------------------------------------------------------------------
(* Claims *)

BuilderKinds == {"transfer", "send_action_raw"}

\* the response is a non-success status carrying the standard error envelope
IsApiErrorResponse(resp) ==
    resp.sent /\ resp.status # StatusOK /\ resp.body.schema = "APIErrorRes"

\* C1: transfer with a symbol whose lowercased form is not a key of
\* symbol_to_tag ends by returning an unknown-token error to the caller.
C1_UnknownSymbolReturnsError ==
    (kind = "transfer" /\ pc # "idle" /\ to_lowercase(args.symbol) \notin DOMAIN symbol_to_tag)
        => (pc = "returned" /\ ~ret.ok /\ ret.err.variant = "TokenError")

\* C2: when the bundler accepted the item and /tx answers with an API error,
\* send_and_pay returns that API error (never Ok), the bundler was posted to
\* once and still holds the order.
C2_SettlementErrorPropagated ==
    (kind = "send_and_pay" /\ pc = "returned" /\ order # None /\ settle_resp # None
        /\ IsApiErrorResponse(settle_resp))
        => /\ ret = Err(APIError(settle_resp.body.v.error))
           /\ bundle_posts = 1
           /\ order.item_id \in bundler_orders

C2_Witness ==
    /\ kind = "send_and_pay" /\ pc = "returned" /\ order # None /\ settle_resp # None
    /\ IsApiErrorResponse(settle_resp)
    /\ ~ret.ok

\* the strings a returned value carries to the caller
Carried(r) ==
    IF r.ok THEN {r.val}
    ELSE IF r.err.variant = "APIError" THEN {r.err.e}
    ELSE IF r.err.variant = "TokenError" THEN {r.err.arg}
    ELSE {}

\* C3: when send_and_pay returns an error of the settlement submission after
\* the bundler accepted the item, the caller holds the item id: the returned value carries it
\* (send_and_pay hands the caller nothing before it returns).
C3_ItemIdRecoverable ==
    (kind = "send_and_pay" /\ pc = "returned" /\ order # None /\ settle_resp # None
        /\ IsApiErrorResponse(settle_resp) /\ ~ret.ok)
        => order.item_id \in Carried(ret)

\* C4: once the bundler has returned an order, send_and_pay never ends
\* without returning a value.
C4_AlwaysReturns ==
    (kind = "send_and_pay" /\ order # None) => pc # "panicked"

\* C5 as stated: a builder entry point issues no POST to /tx.
C5_BuilderDoesNotSubmit ==
    kind \in BuilderKinds => tx_posts = 0

\* C5 amended: once the signer has returned a signature, the builder entry
\* point has posted the signed record to /tx exactly once, and what it returns
\* on success is the service's status result; without a signature it posts
\* nothing.
C5_BuilderSubmitsOnce ==
    (kind \in BuilderKinds /\ pc \in {"await_submit", "returned"})
        => IF tx # None /\ tx.sig # ""
           THEN /\ tx_posts = 1
                /\ posted_tx = tx
                /\ (pc = "returned" /\ ret.ok) => ret.val \in StatusResBodies
           ELSE tx_posts = 0

C5_Witness ==
    /\ kind \in BuilderKinds /\ pc = "returned" /\ ret.ok
    /\ tx_posts = 1 /\ posted_tx = tx

\* C6: after a successful update_info every tag of tokens is the value of
\* exactly one entry of symbol_to_tag.
C6_EveryTagHasOneSymbol ==
    (upd_pc = "returned" /\ upd_ret.ok)
        => \A tag \in DOMAIN tokens :
              Cardinality({sym \in DOMAIN symbol_to_tag : symbol_to_tag[sym] = tag}) = 1

\* C7: a step in which update_info returns an error leaves tokens,
\* symbol_to_tag and fee_recipient as they were.
C7_FailedRefreshKeepsRegistry ==
    [][(upd_pc = "await_info" /\ upd_pc' = "returned" /\ ~upd_ret'.ok)
          => (tokens' = tokens /\ symbol_to_tag' = symbol_to_tag
              /\ fee_recipient' = fee_recipient)]_vars

C7_Witness ==
    /\ upd_pc = "returned" /\ ~upd_ret.ok
    /\ constructed /\ DOMAIN tokens # {} /\ fee_recipient # ""

\* C8: the three registry fields a call reads come from one /info response
\* (or all from construction), also when an update_info is in flight.
C8_ReadsSeeOneVersion ==
    seen # None
        => (seen.tokens = seen.symbol_to_tag /\ seen.symbol_to_tag = seen.fee_recipient)

C8_Witness ==
    /\ seen # None /\ seen.during_update
    /\ seen.tokens # None
    /\ pc = "await_sign"

\* C9: the record's sig is empty until the signer has answered; once set it
\* is the signature over the canonical message of the record as it stands;
\* the record posted to /tx is that record; a signed record does not change.
C9_SigOverRecord ==
    /\ [](tx # None =>
            /\ (pc = "await_sign" => tx.sig = "")
            /\ (tx.sig # "" => tx.sig = Signature(signer_type, sig_msg(tx)))
            /\ (posted_tx # None => posted_tx = tx /\ tx.sig # ""))
    /\ [][(tx # None /\ tx.sig # "" /\ tx' # None) => tx' = tx]_vars

C9_Witness ==
    /\ pc = "await_submit" /\ posted_tx # None
    /\ posted_tx.sig = Signature(signer_type, sig_msg(posted_tx))

\* the two records agree on the thirteen fields sig_msg prints
SameSignedFields(a, b) ==
    \A i \in 1..Len(SignedFields) : a[SignedFields[i]] = b[SignedFields[i]]

HasNewline(str) == \E i \in 1..Len(str) : CharAt(str, i) = "\n"

\* no field sig_msg prints holds a newline
NewlineFree(a) ==
    \A i \in 1..Len(SignedFields) : ~HasNewline(a[SignedFields[i]])

\* C10 as stated: two records have the same canonical message exactly when
\* they agree on the thirteen fields, whatever the field values.
C10_MessageIffFields ==
    (msg_a # "" /\ msg_b # "")
        => ((msg_a = msg_b) <=> SameSignedFields(rec_a, rec_b))

\* C10 for field values without newlines (this much holds): records that
\* agree on the thirteen fields have the same canonical message, and two
\* records whose thirteen field values hold no newline have the same message
\* only when they agree on the thirteen fields.
C10_MessageIffFieldsNewlineFree ==
    (msg_a # "" /\ msg_b # "")
        => /\ SameSignedFields(rec_a, rec_b) => msg_a = msg_b
           /\ (NewlineFree(rec_a) /\ NewlineFree(rec_b) /\ msg_a = msg_b)
                 => SameSignedFields(rec_a, rec_b)

C10_Witness ==
    /\ msg_a # "" /\ msg_b # ""
    /\ NewlineFree(rec_a) /\ NewlineFree(rec_b)
    /\ rec_a.nonce # rec_b.nonce
    /\ msg_a # msg_b

\* the thirteen lines of the canonical message in their order: label, field
C11_Lines ==
    << <<"tokenSymbol", "token_symbol">>, <<"action", "action">>,
       <<"from", "from">>, <<"to", "to">>, <<"amount", "amount">>,
       <<"fee", "fee">>, <<"feeRecipient", "fee_recipient">>,
       <<"nonce", "nonce">>, <<"tokenID", "token_id">>,
       <<"chainType", "chain_type">>, <<"chainID", "chain_id">>,
       <<"data", "data">>, <<"version", "version">> >>

\* lines i.. of C11_Lines for record r, each `label:value`, joined by newlines
RECURSIVE LinesFrom(_, _)
LinesFrom(r, i) ==
    IF i > Len(C11_Lines) THEN ""
    ELSE (IF i = 1 THEN "" ELSE "\n")
         \o C11_Lines[i][1] \o ":" \o r[C11_Lines[i][2]]
         \o LinesFrom(r, i + 1)

\* C11: the canonical message of a record is the thirteen labelled fields in
\* the order tokenSymbol, action, from, to, amount, fee, feeRecipient, nonce,
\* tokenID, chainType, chainID, data, version; it does not depend on sig: two
\* records that agree on the thirteen fields (equal records included, which
\* is a repeated call) have the same message.
C11_MessageIgnoresSig ==
    /\ msg_a # "" => msg_a = LinesFrom(rec_a, 1)
    /\ msg_b # "" => msg_b = LinesFrom(rec_b, 1)
    /\ (msg_a # "" /\ msg_b # "" /\ SameSignedFields(rec_a, rec_b)) => msg_a = msg_b

C11_Witness ==
    /\ msg_a # "" /\ msg_b # ""
    /\ SameSignedFields(rec_a, rec_b)
    /\ rec_a.sig # rec_b.sig
    /\ msg_a = msg_b

\* the response has a status other than OK
NonSuccess(resp) == resp.sent /\ resp.status # StatusOK

\* r is an API error carrying the error string of the envelope in resp
IsEnvelopeError(r, resp) ==
    /\ ~r.ok
    /\ r.err.variant = "APIError"
    /\ resp.body.schema = "APIErrorRes"
    /\ r.err.e = resp.body.v.error

\* C12 as stated: whenever /info, bundle/tx or /tx answers with a status other
\* than OK, the wrapper's caller gets an API error carrying the envelope's
\* error string; never Ok, never another error kind.
C12_NonSuccessIsApiError ==
    /\ (upd_pc = "returned" /\ NonSuccess(info_resp)) => IsEnvelopeError(upd_ret, info_resp)
    /\ (pc = "returned" /\ bundle_resp # None /\ NonSuccess(bundle_resp))
          => IsEnvelopeError(ret, bundle_resp)
    /\ (pc = "returned" /\ settle_resp # None /\ NonSuccess(settle_resp))
          => IsEnvelopeError(ret, settle_resp)

\* what a caller gets for a response with a status other than OK: the API
\* error with the envelope's string when the body is the envelope, the
\* decoding error of the HTTP library when it is not
NonSuccessResult(r, resp) ==
    IF resp.body.schema = "APIErrorRes"
    THEN IsEnvelopeError(r, resp)
    ELSE r = Err(ReqwestError("decode"))

\* C12 amended: a status other than OK never yields Ok; with the error
\* envelope as body it yields the API error carrying the envelope's string
\* verbatim, with any other body the decoding error.
C12_NonSuccessIsError ==
    /\ (upd_pc = "returned" /\ NonSuccess(info_resp)) => NonSuccessResult(upd_ret, info_resp)
    /\ (pc = "returned" /\ bundle_resp # None /\ NonSuccess(bundle_resp))
          => NonSuccessResult(ret, bundle_resp)
    /\ (pc = "returned" /\ settle_resp # None /\ NonSuccess(settle_resp))
          => NonSuccessResult(ret, settle_resp)

C12_Witness ==
    /\ pc = "returned" /\ settle_resp # None /\ NonSuccess(settle_resp)
    /\ settle_resp.body.schema # "APIErrorRes"
    /\ ret = Err(ReqwestError("decode"))

\* the number a decimal string stands for
DecimalValue(str) == parse_u64(str).val

\* C13: when send_and_pay returns Ok, the call posted exactly one record to
\* /tx: a transfer to the order's bundler, of the amount the order's fee
\* stands for, in the token the registry resolves the order's currency to,
\* with the payment payload naming the order's item id as data; the value
\* returned is the order's item id.
C13_SuccessPaidTheOrder ==
    (kind = "send_and_pay" /\ pc = "returned" /\ ret.ok)
        => /\ order # None
           /\ tx_posts = 1
           /\ bundle_posts = 1
           /\ posted_tx.action = "transfer"
           /\ posted_tx.to = order.bundler
           /\ parse_u64(order.fee).ok
           /\ posted_tx.amount \in {"7", "1000"}
           /\ DecimalValue(posted_tx.amount) = DecimalValue(order.fee)
           /\ to_lowercase(order.currency) \in DOMAIN symbol_to_tag
           /\ LET resolved == tokens[symbol_to_tag[to_lowercase(order.currency)]]
              IN  /\ posted_tx.token_symbol = resolved.symbol
                  /\ posted_tx.token_id = resolved.id
           /\ order.item_id = "X"
           /\ posted_tx.data
                = "{\"appName\":\"arseeding\",\"action\":\"payment\",\"itemIds\":[\"X\"]}"
           /\ ret.val = order.item_id

C13_Witness ==
    /\ kind = "send_and_pay" /\ pc = "returned" /\ ret.ok
    /\ args.currency = "ar" /\ order.currency = "usdc"
    /\ order.fee = "+07" /\ posted_tx.amount = "7"
    /\ posted_tx.token_symbol = "USDC"

\* C14: submit_item posts to the base URL followed by bundle/tx/<currency>
\* when a currency is given and to the base URL followed by bundle/tx when
\* the currency is empty; X-API-KEY is sent exactly when the api key is not
\* empty, and then with that key.
C14_SubmitItemUrl ==
    (kind = "send_and_pay" /\ bundle_req # None)
        => /\ bundle_req.sent
           /\ bundle_req.req.url
                = IF args.currency = ""
                  THEN "https://arseed.web3infra.dev/bundle/tx"
                  ELSE "https://arseed.web3infra.dev/bundle/tx/" \o args.currency
           /\ bundle_req.req.api_key_header
                = IF args.api_key = "" THEN <<>> ELSE <<args.api_key>>

UpperChar(c) ==
    IF IndexOf(c, Lower) > 0 THEN CharAt(Upper, IndexOf(c, Lower)) ELSE c

\* the upper-cased form of s
RECURSIVE to_uppercase(_)
to_uppercase(s) ==
    IF Len(s) = 0 THEN ""
    ELSE UpperChar(CharAt(s, 1)) \o to_uppercase(SubSeq(s, 2, Len(s)))

\* the token list of the /info response the registry was built from
RegisteredList == reg_src.tokens.token_list

\* what transfer does up to the signer when called with this spelling
Resolve(symbol, wa) == transfer_sync(symbol, "RECEIVER", 500, "{}", wa)

WalletAddresses == {r.val : r \in {w \in WalletAddressResults(signer_type) : w.ok}}

\* C16: the record transfer builds for a symbol of the registry has action
\* "transfer", version "v1", the signer's wallet address as from, the
\* caller's receiver as to, the caller's amount in decimal as amount, the
\* caller's data, the resolved descriptor's id, chain type, chain id and
\* transfer fee, and the registry's fee recipient; once the signer has
\* answered, its sig is the signer's output for the record's message.
C16_TransferRecord ==
    (kind = "transfer" /\ tx # None)
        => /\ to_lowercase(args.symbol) \in DOMAIN symbol_to_tag
           /\ symbol_to_tag[to_lowercase(args.symbol)] \in DOMAIN tokens
           /\ LET descriptor == tokens[symbol_to_tag[to_lowercase(args.symbol)]]
              IN  /\ tx.action = "transfer"
                  /\ tx.version = "v1"
                  /\ tx.from \in WalletAddresses
                  /\ tx.to = args.receiver
                  /\ args.amount = 500 /\ tx.amount = "500"
                  /\ tx.data = args.data
                  /\ tx.token_id = descriptor.id
                  /\ tx.chain_type = descriptor.chain_type
                  /\ tx.chain_id = descriptor.chain_id
                  /\ tx.fee = descriptor.transfer_fee
                  /\ tx.fee_recipient = fee_recipient
           /\ IF pc = "await_sign" THEN tx.sig = ""
              ELSE tx.sig \in {"", Signature(signer_type, sig_msg(tx))}
           /\ tx_posts > 0 => tx.sig = Signature(signer_type, sig_msg(tx))

C16_Witness ==
    /\ kind = "transfer" /\ pc = "returned" /\ ret.ok
    /\ args.symbol = "ar"
    /\ tx.fee = "1000" /\ tx.fee_recipient = "FR1" /\ tx.chain_id = "0"
    /\ tx.sig = Signature(signer_type, sig_msg(tx))

\* C17: no operation retries.  One invocation of send_and_pay issues at most
\* one POST to bundle/tx and at most one POST to /tx; one invocation of
\* transfer or send_action_raw calls the signer at most once and issues at
\* most one POST to /tx and none to bundle/tx; whatever the services and the
\* signer answer.
C17_NoRetry ==
    /\ bundle_posts <= 1
    /\ sign_calls <= 1
    /\ tx_posts <= 1
    /\ kind \in BuilderKinds => bundle_posts = 0
    /\ (pc \in {"returned", "panicked"} /\ settle_resp # None) => tx_posts = 1

C17_Witness ==
    /\ kind = "send_and_pay" /\ pc = "returned" /\ ~ret.ok
    /\ settle_resp # None /\ ~settle_resp.sent
    /\ bundle_posts = 1 /\ sign_calls = 1 /\ tx_posts = 1

\* the two instants lie in the same millisecond
SameMs(a_ns, b_ns) == a_ns \div 1000000 = b_ns \div 1000000

\* C18: the nonce of a built record is the wall-clock time of its build in
\* whole milliseconds; a record built after another one in the same
\* millisecond has the same nonce, and the nonce of a record built later is
\* never smaller.
C18_NonceIsBuildMs ==
    /\ tx # None =>
          /\ parse_u64(tx.nonce).ok
          /\ DecimalValue(tx.nonce) * 1000000 <= built_at
          /\ built_at < (DecimalValue(tx.nonce) + 1) * 1000000
    /\ (tx # None /\ last_built # None) =>
          /\ last_built.at <= built_at
          /\ SameMs(last_built.at, built_at) => tx.nonce = last_built.nonce
          /\ DecimalValue(last_built.nonce) <= DecimalValue(tx.nonce)

\* two records built at different instants of one millisecond: equal nonces
C18_Witness ==
    /\ tx # None /\ last_built # None
    /\ last_built.at < built_at
    /\ tx.nonce = last_built.nonce

\* the steps of send_and_pay in their order
C19_Order == <<"bundle", "resolve", "address", "sign", "settle">>

\* the first n steps of the call were gone through, each with success
Succeeded(n) ==
    /\ Len(steps) >= n
    /\ \A i \in 1..n : steps[i] = [step |-> C19_Order[i], ok |-> TRUE]

\* C19: the steps of one send_and_pay happen in the order bundler
\* submission, token resolution, address derivation, signing, settlement
\* submission; a step that failed is the last one; the signer is called
\* only after the bundler returned an order, the token was resolved and the
\* address derived; /tx is posted to only after signing succeeded as well.
C19_StepsInOrder ==
    kind = "send_and_pay"
        => /\ Len(steps) <= Len(C19_Order)
           /\ \A i \in 1..Len(steps) : steps[i].step = C19_Order[i]
           /\ \A i \in 1..(Len(steps) - 1) : steps[i].ok
           /\ sign_calls > 0 => (order # None /\ bundle_posts = 1 /\ Succeeded(3))
           /\ tx_posts > 0 => (order # None /\ sign_calls = 1 /\ Succeeded(4))
           /\ order # None => Succeeded(1)
           /\ (Len(steps) > 0 /\ ~steps[Len(steps)].ok) => pc \in {"returned", "panicked"}

\* the address derivation failed after the bundler accepted the item: no
\* signing, no settlement POST
C19_Witness ==
    /\ kind = "send_and_pay" /\ pc = "returned"
    /\ Succeeded(2)
    /\ steps[Len(steps)] = [step |-> "address", ok |-> FALSE]
    /\ sign_calls = 0 /\ tx_posts = 0

====
